---------------------------- MODULE Spec2Model ----------------------------
(***************************************************************************)
(* Model of the `hal key` and `hal address` command handlers               *)
(* (src/src/bin/hal/cmd/key.rs, src/src/bin/hal/cmd/address.rs).           *)
(*                                                                         *)
(* One process runs one command: Init is the process before the handler    *)
(* runs, each action is one whole handler, and the state afterwards holds  *)
(* the arguments (cmd) and everything the handler produced (res): what it  *)
(* wrote to stdout and stderr, its exit code (0, 1 from process::exit(1),  *)
(* 101 from a panic) and the ordered list of the library calls it made.    *)
(*                                                                         *)
(* The curve is an additive cyclic group Z_GroupOrder: the point k stands  *)
(* for k*G, 0 is the point at infinity.  Byte strings are sequences over   *)
(* 0..255; a text argument that is not hex is the one-element sequence     *)
(* <<256>>.                                                                *)
(***************************************************************************)
EXTENDS Integers, Sequences, FiniteSets, TLC

VARIABLES pc, cmd, res

vars == <<pc, cmd, res>>

(***************************************************************************)
(* Bounds of the model.                                                    *)
(***************************************************************************)
\* Order of the model's curve group; scalars are 0..GroupOrder-1.
GroupOrder == 5
\* Witness program contents are filled with one byte out of 0..MaxFill.
MaxFill == 0

(***************************************************************************)
(* Option values and results.                                              *)
(***************************************************************************)
NONE == <<>>
Some(x) == <<x>>

Ok(v) == [ok |-> TRUE, val |-> v]
Err == [ok |-> FALSE, val |-> NONE]

Zeros(n) == [i \in 1..n |-> 0]
Fill(n, b) == [i \in 1..n |-> b]
Reverse(s) == [i \in 1..Len(s) |-> s[Len(s) + 1 - i]]

\* What a handler leaves behind.
Outcome(out, err, code, calls) ==
    [stdout |-> out, stderr |-> err, exit |-> code, trace |-> calls]
\* expect()/unwrap()/panic!(): the message goes to stderr, the exit code is 101.
Panic(msg, calls) == Outcome(<<>>, <<msg>>, 101, calls)

\* hex::decode / FromHex: fails when the text is not hex.
IsHex(bytes) == \A i \in 1..Len(bytes) : bytes[i] \in 0..255
BadHex == <<256>>

Networks == {"bitcoin", "testnet", "regtest"}

(***************************************************************************)
(* Curve primitives (secp256k1), on the model group.                       *)
(***************************************************************************)
Points == 1..(GroupOrder - 1)
\* str::parse::<PublicKey>: 0 stands for every text that is no curve point.
PointTexts == 0..(GroupOrder - 1)
parse_public_key(text) == IF text \in Points THEN Ok(text) ELSE Err

\* <[u8; 32]>::from_hex: -1 stands for every text that is not 32 bytes of hex.
\* Scalar::from_be_bytes: the value GroupOrder stands for every value
\* not below the group order.
ScalarTexts == (-1)..GroupOrder
scalar_from_hex(text) == IF text = -1 THEN Err ELSE Ok(text)
scalar_from_be_bytes(v) == IF v \in 0..(GroupOrder - 1) THEN Ok(v) ELSE Err

\* PublicKey::add_exp_tweak(self, secp, tweak) -> Result<PublicKey, Error>:
\* takes self by value and returns the tweaked key P + t*G; fails on infinity.
add_exp_tweak(P, t) ==
    LET sum == (P + t) % GroupOrder
    IN IF sum = 0 THEN Err ELSE Ok(sum)

\* PublicKey -> XOnlyPublicKey (pk.into()): P and -P share the x coordinate.
x_only(P) == IF P <= GroupOrder - P THEN P ELSE GroupOrder - P


(***************************************************************************)
(* ECDSA signatures (secp256k1::ecdsa).  A signature is a pair of 32-byte  *)
(* big-endian scalars [r, s].                                              *)
(***************************************************************************)
\* The group order n of secp256k1, big-endian: a scalar must be below it.
CurveOrder ==
    << 255, 255, 255, 255, 255, 255, 255, 255, 255, 255, 255, 255, 255, 255, 255, 254,
       186, 174, 220, 230, 175,  72, 160,  59, 191, 210,  94, 140, 208,  54,  65,  65 >>

\* a < b for byte strings of one length, read as big-endian numbers.
RECURSIVE BytesLess(_, _)
BytesLess(a, b) ==
    IF a = <<>> THEN FALSE
    ELSE IF Head(a) # Head(b) THEN Head(a) < Head(b)
    ELSE BytesLess(Tail(a), Tail(b))

RECURSIVE StripZeros(_)
StripZeros(bs) ==
    IF bs # <<>> /\ Head(bs) = 0 THEN StripZeros(Tail(bs)) ELSE bs

Pad32(bs) == Zeros(32 - Len(bs)) \o bs

\* Signature::serialize_compact: r and s, 32 bytes each.
serialize_compact(sig) == sig.r \o sig.s

\* DER INTEGER contents of a scalar: no leading zeros, but a 0x00 in front of
\* a leading byte with the high bit set, and one 0x00 for zero.
DerInt(scalar) ==
    LET body == StripZeros(scalar)
    IN IF body = <<>> THEN <<0>>
       ELSE IF Head(body) >= 128 THEN <<0>> \o body
       ELSE body

\* Signature::serialize_der: SEQUENCE { INTEGER r, INTEGER s }.
serialize_der(sig) ==
    LET ri == DerInt(sig.r)
        si == DerInt(sig.s)
    IN <<48, 4 + Len(ri) + Len(si), 2, Len(ri)>> \o ri \o <<2, Len(si)>> \o si

\* Signature::from_compact: fails when r or s is not below the group order.
from_compact(bytes) ==
    LET r == SubSeq(bytes, 1, 32)
        s == SubSeq(bytes, 33, 64)
    IN IF BytesLess(r, CurveOrder) /\ BytesLess(s, CurveOrder)
       THEN Ok([r |-> r, s |-> s])
       ELSE Err

\* A DER INTEGER is well formed: not empty, not negative, minimally encoded.
DerIntOk(bs) ==
    /\ Len(bs) >= 1
    /\ bs[1] < 128
    /\ (Len(bs) > 1 /\ bs[1] = 0) => bs[2] >= 128

\* The scalar of a DER INTEGER; a value that does not fit the group order
\* reads as zero.
DerScalar(bs) ==
    LET body == StripZeros(bs)
    IN IF Len(body) > 32 THEN Zeros(32)
       ELSE IF BytesLess(Pad32(body), CurveOrder) THEN Pad32(body)
       ELSE Zeros(32)

\* Signature::from_der: strict DER, nothing may follow the sequence.
from_der(bytes) ==
    LET n == Len(bytes) IN
    IF ~(n >= 8 /\ bytes[1] = 48 /\ bytes[2] = n - 2 /\ bytes[2] < 128 /\ bytes[3] = 2)
    THEN Err
    ELSE LET rlen == bytes[4] IN
    IF ~(rlen >= 1 /\ 6 + rlen < n /\ bytes[5 + rlen] = 2)
    THEN Err
    ELSE LET slen == bytes[6 + rlen]
             ri == SubSeq(bytes, 5, 4 + rlen)
             si == SubSeq(bytes, 7 + rlen, n)
         IN IF slen = n - 6 - rlen /\ DerIntOk(ri) /\ DerIntOk(si)
            THEN Ok([r |-> DerScalar(ri), s |-> DerScalar(si)])
            ELSE Err

\* The r of a signature made with a nonce whose point has an x coordinate of
\* len significant bytes.
NonceR(len) == Pad32(<<17>> \o Zeros(len - 1))

\* Secp256k1::sign_ecdsa as a symbolic signature: s commits to the secret key
\* and to every byte of the digest (bytes of the model's digests are below 128
\* - GroupOrder, so nothing wraps and s is below the group order).
SignWith(key, msg, len) ==
    [r |-> NonceR(len), s |-> [i \in 1..32 |-> msg[i] + key]]

\* Secp256k1::verify_ecdsa(msg, sig, pubkey): the signature is one that the
\* secret key of pubkey (the point k is k*G) makes for this digest.
verify_ecdsa(msg, sig, pubkey) ==
    /\ \E len \in 1..32 : sig.r = NonceR(len)
    /\ sig.s = [i \in 1..32 |-> msg[i] + pubkey]

\* Message::from_slice: the digest must be 32 bytes.
message_from_slice(bytes) == IF Len(bytes) = 32 THEN Ok(bytes) ELSE Err

(***************************************************************************)
(* key verify                                                              *)
(***************************************************************************)
\* key.rs 172-180: the signature is read as compact when it is 64 bytes long,
\* as DER otherwise.
decode_signature(bytes) ==
    IF Len(bytes) = 64 THEN from_compact(bytes) ELSE from_der(bytes)

\* key.rs 185: whether the check against the reversed digest runs.
TryReverseMutFlagInverted(valid, no_try_reverse) == ~valid /\ no_try_reverse
try_reverse(valid, no_try_reverse) == ~valid /\ ~no_try_reverse

\* key.rs 199: the verdict of the command.
VerdictMutReverseCounts(valid, rev_valid) == valid \/ rev_valid
verdict(valid, rev_valid) == valid

\* key.rs 191-195: the second line of the hint.
reverse_hint(reverse) ==
    IF reverse THEN "Try dropping the --reverse"
    ELSE "If the message is a Bitcoin SHA256 hash, try --reverse"

\* key.rs 182-204: the checks and the report, once the arguments are decoded.
verify_and_report(msg_bytes, sig, pubkey, reverse, no_try_reverse) ==
    LET valid == verify_ecdsa(msg_bytes, sig, pubkey)
        retry == try_reverse(valid, no_try_reverse)
        rev_bytes == Reverse(msg_bytes)
        rev_valid == retry /\ verify_ecdsa(rev_bytes, sig, pubkey)
        hint == IF rev_valid
                THEN <<"Signature is valid for the reverse message.", reverse_hint(reverse)>>
                ELSE <<>>
        calls == <<<<"verify_ecdsa", msg_bytes>>>>
                 \o (IF retry THEN <<<<"verify_ecdsa", rev_bytes>>>> ELSE <<>>)
    IN IF verdict(valid, rev_valid)
       THEN Outcome(<<>>, hint \o <<"Signature is valid.">>, 0, calls)
       ELSE Outcome(<<>>, hint \o <<"Signature is invalid!">>, 1, calls)

\* key.rs 163-205
exec_verify(message, pubkey_hex, signature, reverse, no_try_reverse) ==
    IF ~IsHex(message) THEN Panic("invalid hex message", <<>>)
    ELSE LET msg_bytes == IF reverse THEN Reverse(message) ELSE message IN
    IF ~message_from_slice(msg_bytes).ok THEN Panic("invalid message to be signed", <<>>)
    ELSE IF ~parse_public_key(pubkey_hex).ok THEN Panic("invalid public key", <<>>)
    ELSE IF ~IsHex(signature) THEN Panic("invalid signature: not hex", <<>>)
    ELSE LET sig == decode_signature(signature) IN
    IF ~sig.ok
    THEN Panic(IF Len(signature) = 64 THEN "invalid signature" ELSE "invalid DER signature",
               <<>>)
    ELSE verify_and_report(msg_bytes, sig.val, parse_public_key(pubkey_hex).val,
                           reverse, no_try_reverse)

(***************************************************************************)
(* key pubkey-tweak-add                                                    *)
(***************************************************************************)
\* key.rs 244-246: the Ok arm drops the sum and prints the variable point.
tweak_add_printed(point, sum) == point

\* key.rs 231-252
exec_pubkey_tweak_add(point_hex, scalar_hex) ==
    LET point == parse_public_key(point_hex) IN
    IF ~point.ok THEN Panic("invalid point", <<>>)
    ELSE IF ~scalar_from_hex(scalar_hex).ok THEN Panic("invalid scalar hex", <<>>)
    ELSE LET scalar == scalar_from_be_bytes(scalar_from_hex(scalar_hex).val) IN
    IF ~scalar.ok THEN Panic("invalid scalar", <<>>)
    ELSE LET sum == add_exp_tweak(point.val, scalar.val)
             calls == <<<<"add_exp_tweak", point.val, scalar.val>>>>
         IN IF sum.ok
            THEN Outcome(<<>>, <<tweak_add_printed(point.val, sum.val)>>, 0, calls)
            ELSE Outcome(<<>>, <<"error: bad tweak">>, 1, calls)

(***************************************************************************)
(* address create                                                          *)
(***************************************************************************)
\* address.rs 19-21: the BIP-341 point H.
NUMS_H == 3

\* address.rs 25-27
NumsMutZeroRejected(entropy) ==
    IF entropy = 0 THEN Err ELSE add_exp_tweak(NUMS_H, entropy)
nums(entropy) == add_exp_tweak(NUMS_H, entropy)

\* hal::address::Addresses::from_pubkey: the three encodings of a public key.
from_pubkey(pubkey, network) ==
    [p2pkh |-> Some(<<"p2pkh", pubkey, network>>),
     p2wpkh |-> Some(<<"p2wpkh", pubkey, network>>),
     p2shwpkh |-> Some(<<"p2shwpkh", pubkey, network>>)]

\* hal::address::Addresses::from_script: p2sh and p2wsh of a script, no p2tr.
from_script(script, network) ==
    [p2sh |-> Some(<<"p2sh", script, network>>),
     p2wsh |-> Some(<<"p2wsh", script, network>>),
     p2tr |-> NONE]

\* address.rs 99-100: Script::to_v1_p2tr with the x-only internal key, then
\* Address::from_script.
p2tr_address(script, pk, network) == <<"p2tr", script, x_only(pk), network>>

\* util::more_than_one
more_than_one(flags) == Cardinality({i \in 1..Len(flags) : flags[i]}) > 1

\* address.rs 78-82: more than one of the three sources is named.
AmbiguousMutEntropyForgotten(nums_h, nums_key, nums_entropy) ==
    more_than_one(<<nums_h, nums_key # NONE>>)
ambiguous_sources(nums_h, nums_key, nums_entropy) ==
    more_than_one(<<nums_h, nums_key # NONE, nums_entropy # NONE>>)

\* address.rs 87-97: the internal key of the one source that is present;
\* [ok, val, trace], val an Option<PublicKey>, ok FALSE with the panic message.
nums_internal_key(nums_h, nums_key, nums_entropy) ==
    IF nums_h
    THEN [ok |-> TRUE, val |-> Some(NUMS_H), trace |-> <<"NUMS_H">>]
    ELSE IF nums_key # NONE
    THEN LET pk == parse_public_key(nums_key[1]) IN
         IF pk.ok
         THEN [ok |-> TRUE, val |-> Some(pk.val), trace |-> <<"parse_internal_key">>]
         ELSE [ok |-> FALSE, val |-> "invalid nums internal key",
               trace |-> <<"parse_internal_key">>]
    ELSE IF nums_entropy # NONE
    THEN IF ~scalar_from_hex(nums_entropy[1]).ok
         THEN [ok |-> FALSE, val |-> "invalid entropy format: must be 32-byte hex",
               trace |-> <<"from_hex">>]
         ELSE LET scalar == scalar_from_be_bytes(scalar_from_hex(nums_entropy[1]).val) IN
         IF ~scalar.ok
         THEN [ok |-> FALSE, val |-> "invalid NUMS entropy",
               trace |-> <<"from_hex", "scalar_from_be_bytes">>]
         ELSE LET pk == nums(scalar.val) IN
         IF pk.ok
         THEN [ok |-> TRUE, val |-> Some(pk.val),
               trace |-> <<"from_hex", "scalar_from_be_bytes", "NUMS_H", "add_exp_tweak">>]
         ELSE [ok |-> FALSE, val |-> "invalid NUMS entropy",
               trace |-> <<"from_hex", "scalar_from_be_bytes", "NUMS_H", "add_exp_tweak">>]
    ELSE [ok |-> TRUE, val |-> NONE, trace |-> <<>>]

\* address.rs 98-101
P2trMutAlways(ret, script, key, network) ==
    [ret EXCEPT !.p2tr = Some(p2tr_address(script, NUMS_H, network))]
add_p2tr(ret, script, key, network) ==
    IF key # NONE
    THEN [ret EXCEPT !.p2tr = Some(p2tr_address(script, key[1], network))]
    ELSE ret

\* address.rs 72-103: the --script branch.
create_from_script(script_hex, nums_h, nums_key, nums_entropy, network) ==
    IF ~IsHex(script_hex) THEN Panic("invalid script hex", <<"hex_decode">>)
    ELSE LET ret == from_script(script_hex, network)
             t1 == <<"hex_decode", "from_script", "more_than_one">>
         IN
    IF ambiguous_sources(nums_h, nums_key, nums_entropy)
    THEN Outcome(<<"Use only either nums-h, nums-internal-key or nums-internal-key-entropy.",
                   "help">>, <<>>, 1, t1)
    ELSE LET key == nums_internal_key(nums_h, nums_key, nums_entropy) IN
    IF ~key.ok THEN Panic(key.val, t1 \o key.trace)
    ELSE Outcome(<<add_p2tr(ret, script_hex, key.val, network)>>, <<>>, 0,
                 t1 \o key.trace
                    \o (IF key.val # NONE THEN <<"to_v1_p2tr">> ELSE <<>>)
                    \o <<"print_output">>)

\* address.rs 64-108
exec_create(pubkey, script, nums_h, nums_key, nums_entropy, network) ==
    IF pubkey # NONE
    THEN LET pk == parse_public_key(pubkey[1]) IN
         IF ~pk.ok THEN Panic("invalid pubkey", <<>>)
         ELSE Outcome(<<from_pubkey(pk.val, network)>>, <<>>, 0,
                      <<"from_pubkey", "print_output">>)
    ELSE IF script # NONE
    THEN create_from_script(script[1], nums_h, nums_key, nums_entropy, network)
    ELSE Outcome(<<"help">>, <<>>, 1, <<>>)

(***************************************************************************)
(* address inspect                                                         *)
(***************************************************************************)
\* Address::script_pubkey
script_pubkey(payload) ==
    IF payload.kind = "PubkeyHash"
    THEN <<118, 169, 20>> \o payload.program \o <<136, 172>>
    ELSE IF payload.kind = "ScriptHash"
    THEN <<169, 20>> \o payload.program \o <<135>>
    ELSE <<IF payload.version = 0 THEN 0 ELSE 80 + payload.version,
           Len(payload.program)>> \o payload.program

\* address.rs 120-134: the report before the payload is looked at.
address_info(address) ==
    [network |-> address.network,
     script_pub_key |-> [hex |-> Some(script_pubkey(address.payload)),
                         asm |-> Some(<<"asm", script_pubkey(address.payload)>>),
                         address |-> NONE,
                         type_ |-> NONE],
     type_ |-> NONE,
     pubkey_hash |-> NONE,
     script_hash |-> NONE,
     witness_pubkey_hash |-> NONE,
     witness_script_hash |-> NONE,
     witness_program_version |-> NONE]

\* address.rs 153-167: the witness program arm.
V0MutLengthUnchecked(info, version, program) ==
    IF version = 0
    THEN IF Len(program) = 20
         THEN [info EXCEPT !.type_ = Some("p2wpkh"), !.witness_pubkey_hash = Some(program)]
         ELSE [info EXCEPT !.type_ = Some("p2wsh"), !.witness_script_hash = Some(program)]
    ELSE [info EXCEPT !.type_ = Some("unknown-witness-program-version")]
VersionMutTaprootDecoded(info, version, program) ==
    IF version = 0
    THEN IF Len(program) = 20
         THEN [info EXCEPT !.type_ = Some("p2wpkh"), !.witness_pubkey_hash = Some(program)]
         ELSE IF Len(program) = 32
         THEN [info EXCEPT !.type_ = Some("p2wsh"), !.witness_script_hash = Some(program)]
         ELSE [info EXCEPT !.type_ = Some("invalid-witness-program")]
    ELSE IF version = 1 /\ Len(program) = 32
    THEN [info EXCEPT !.type_ = Some("p2tr"), !.witness_script_hash = Some(program)]
    ELSE [info EXCEPT !.type_ = Some("unknown-witness-program-version")]
classify_witness_program(info, version, program) ==
    IF version = 0
    THEN IF Len(program) = 20
         THEN [info EXCEPT !.type_ = Some("p2wpkh"), !.witness_pubkey_hash = Some(program)]
         ELSE IF Len(program) = 32
         THEN [info EXCEPT !.type_ = Some("p2wsh"), !.witness_script_hash = Some(program)]
         ELSE [info EXCEPT !.type_ = Some("invalid-witness-program")]
    ELSE [info EXCEPT !.type_ = Some("unknown-witness-program-version")]

\* address.rs 115-172; address_str is the decoded address or NONE when the
\* text does not parse.
address_exec_inspect(address_str) ==
    IF address_str = NONE THEN Panic("invalid address format", <<>>)
    ELSE LET address == address_str[1]
             info == address_info(address)
             payload == address.payload
         IN
    IF payload.kind = "PubkeyHash"
    THEN Outcome(<<[info EXCEPT !.type_ = Some("p2pkh"),
                                !.pubkey_hash = Some(payload.program)]>>, <<>>, 0, <<>>)
    ELSE IF payload.kind = "ScriptHash"
    THEN Outcome(<<[info EXCEPT !.type_ = Some("p2sh"),
                                !.script_hash = Some(payload.program)]>>, <<>>, 0, <<>>)
    ELSE Outcome(<<classify_witness_program(
                       [info EXCEPT !.witness_program_version = Some(payload.version)],
                       payload.version, payload.program)>>, <<>>, 0, <<>>)

(***************************************************************************)
(* key derive, key inspect, key sign                                       *)
(***************************************************************************)
\* A secret scalar is valid when it is in 1..n-1.
ValidSecret(v) == v \in 1..(GroupOrder - 1)

\* bitcoin::PrivateKey::from_str: base58check WIF, which carries the network
\* and the compression flag.
privkey_from_str(text) ==
    IF text.form = "wif" /\ ValidSecret(text.scalar)
    THEN Ok([compressed |-> text.compressed, network |-> text.network,
             inner |-> text.scalar])
    ELSE Err

\* secp256k1::SecretKey::from_str: 32 bytes of hex, a valid scalar.
secret_from_str(text) ==
    IF text.form = "hex" /\ ValidSecret(text.scalar) THEN Ok(text.scalar) ELSE Err

\* key.rs 73-83 and 132-141: WIF first, then hex with the network of the
\* command line and compressed = true; [ok, val, trace].
parse_privkey(s, network) ==
    LET wif == privkey_from_str(s) IN
    IF wif.ok
    THEN [ok |-> TRUE, val |-> wif.val, trace |-> <<<<"PrivateKey::from_str", s>>>>]
    ELSE LET sk == secret_from_str(s)
             calls == <<<<"PrivateKey::from_str", s>>, <<"SecretKey::from_str", s>>>>
         IN IF sk.ok
            THEN [ok |-> TRUE,
                  val |-> [compressed |-> TRUE, network |-> network, inner |-> sk.val],
                  trace |-> calls]
            ELSE [ok |-> FALSE, val |-> NONE, trace |-> calls]

\* GetInfo::get_info(&self, network): the report is built from self and from
\* the network that is passed.
get_info(kind, self, network) == [kind |-> kind, self |-> self, network |-> network]

\* key.rs 85: the network passed to get_info.
derive_info_network(privkey, network) == network

\* key.rs 70-87
exec_derive(s, network) ==
    LET privkey == parse_privkey(s, network) IN
    IF ~privkey.ok THEN Panic("invalid private key provided", privkey.trace)
    ELSE Outcome(<<get_info("PrivateKey", privkey.val,
                            derive_info_network(privkey.val, network))>>,
                 <<>>, 0, privkey.trace)

\* key.rs 94-106
key_exec_inspect(raw, network) ==
    LET wif == privkey_from_str(raw)
        sk == secret_from_str(raw)
    IN IF wif.ok
       THEN Outcome(<<get_info("PrivateKey", wif.val, wif.val.network)>>, <<>>, 0,
                    <<<<"PrivateKey::from_str", raw>>>>)
       ELSE IF sk.ok
       THEN Outcome(<<get_info("SecretKey", sk.val, network)>>, <<>>, 0,
                    <<<<"PrivateKey::from_str", raw>>, <<"SecretKey::from_str", raw>>>>)
       ELSE Panic("invalid WIF/hex private key",
                  <<<<"PrivateKey::from_str", raw>>, <<"SecretKey::from_str", raw>>>>)

\* Secp256k1::sign_ecdsa: the nonce is a function of key and digest; its point
\* has a full-length x coordinate.
sign_ecdsa(msg, key) == SignWith(key, msg, 32)

\* key.rs 122-145
exec_sign(s, message, reverse, network) ==
    IF ~IsHex(message) THEN Panic("invalid hex message", <<>>)
    ELSE LET msg_bytes == IF reverse THEN Reverse(message) ELSE message IN
    IF ~message_from_slice(msg_bytes).ok THEN Panic("invalid message to be signed", <<>>)
    ELSE LET privkey == parse_privkey(s, network) IN
    IF ~privkey.ok THEN Panic("invalid private key provided", privkey.trace)
    ELSE Outcome(<<get_info("Signature", sign_ecdsa(msg_bytes, privkey.val.inner), network)>>,
                 <<>>, 0, privkey.trace \o <<<<"sign_ecdsa", privkey.val>>>>)

(***************************************************************************)
(* The arguments a command line can carry.                                 *)
(***************************************************************************)
\* Largest value of the first and of the last byte of a digest of the model.
MaxMsgByte == 1

MkMsg(a, b) == <<a>> \o Zeros(30) \o <<b>>
Digests == {MkMsg(a, b) : a \in 0..MaxMsgByte, b \in 0..MaxMsgByte}
MessageTexts == Digests \cup {Zeros(31), BadHex}

\* Significant bytes of r: with 26 the DER form of a signature is 64 bytes
\* long, with 32 it is 70.
SigLens == {26, 32}
Signers == {k \in Points : k <= 2}
Signatures == {SignWith(k, m, len) : k \in Signers, m \in Digests, len \in SigLens}
SignatureTexts ==
    {serialize_compact(sig) : sig \in Signatures}
        \cup {serialize_der(sig) : sig \in Signatures}
        \cup {BadHex, Fill(64, 255), Zeros(8)}

Option(S) == {NONE} \cup {Some(x) : x \in S}

Scripts == {<<81>>, <<81, 82>>}
ScriptTexts == Scripts \cup {BadHex}

KeyTexts ==
    [form : {"wif"}, network : {"bitcoin", "testnet"}, compressed : BOOLEAN,
     scalar : 0..GroupOrder]
        \cup [form : {"hex"}, network : {"bitcoin"}, compressed : {FALSE},
              scalar : 0..GroupOrder]
        \cup [form : {"bad"}, network : {"bitcoin"}, compressed : {FALSE}, scalar : {0}]

ProgramLens == {2, 20, 21, 32, 40}
Payloads ==
    [kind : {"PubkeyHash", "ScriptHash"}, version : {0},
     program : {Fill(20, b) : b \in 0..MaxFill}]
        \cup [kind : {"WitnessProgram"}, version : 0..16,
              program : {Fill(n, b) : n \in ProgramLens, b \in 0..MaxFill}]
Addresses == [network : Networks, payload : Payloads]

(***************************************************************************)
(* The state machine.                                                      *)
(***************************************************************************)
Init ==
    /\ pc = "start"
    /\ cmd = [name |-> "none"]
    /\ res = Outcome(<<>>, <<>>, 0, <<>>)

AddressCreate ==
    \E pubkey \in Option(PointTexts), script \in Option(ScriptTexts), nums_h \in BOOLEAN,
       nums_key \in Option(PointTexts), nums_entropy \in Option(ScalarTexts),
       network \in Networks :
        /\ pc = "start"
        /\ pc' = "exit"
        /\ cmd' = [name |-> "address create", pubkey |-> pubkey, script |-> script,
                   nums_h |-> nums_h, nums_key |-> nums_key, nums_entropy |-> nums_entropy,
                   network |-> network]
        /\ res' = exec_create(pubkey, script, nums_h, nums_key, nums_entropy, network)

AddressInspect ==
    \E address \in Option(Addresses) :
        /\ pc = "start"
        /\ pc' = "exit"
        /\ cmd' = [name |-> "address inspect", address |-> address]
        /\ res' = address_exec_inspect(address)

KeyDerive ==
    \E s \in KeyTexts, network \in Networks :
        /\ pc = "start"
        /\ pc' = "exit"
        /\ cmd' = [name |-> "key derive", privkey |-> s, network |-> network]
        /\ res' = exec_derive(s, network)

KeyInspect ==
    \E raw \in KeyTexts, network \in Networks :
        /\ pc = "start"
        /\ pc' = "exit"
        /\ cmd' = [name |-> "key inspect", privkey |-> raw, network |-> network]
        /\ res' = key_exec_inspect(raw, network)

KeySign ==
    \E s \in KeyTexts, message \in MessageTexts, reverse \in BOOLEAN, network \in Networks :
        /\ pc = "start"
        /\ pc' = "exit"
        /\ cmd' = [name |-> "key sign", privkey |-> s, message |-> message,
                   reverse |-> reverse, network |-> network]
        /\ res' = exec_sign(s, message, reverse, network)

KeyVerify ==
    \E message \in MessageTexts, pubkey \in PointTexts, signature \in SignatureTexts,
       reverse \in BOOLEAN, no_try_reverse \in BOOLEAN :
        /\ pc = "start"
        /\ pc' = "exit"
        /\ cmd' = [name |-> "key verify", message |-> message, pubkey |-> pubkey,
                   signature |-> signature, reverse |-> reverse,
                   no_try_reverse |-> no_try_reverse]
        /\ res' = exec_verify(message, pubkey, signature, reverse, no_try_reverse)

KeyPubkeyTweakAdd ==
    \E point \in PointTexts, scalar \in ScalarTexts :
        /\ pc = "start"
        /\ pc' = "exit"
        /\ cmd' = [name |-> "key pubkey-tweak-add", point |-> point, scalar |-> scalar]
        /\ res' = exec_pubkey_tweak_add(point, scalar)

Next ==
    \/ AddressCreate
    \/ AddressInspect
    \/ KeyDerive
    \/ KeyInspect
    \/ KeySign
    \/ KeyVerify
    \/ KeyPubkeyTweakAdd

Spec == Init /\ [][Next]_vars

(***************************************************************************)
(* Properties.                                                             *)
(***************************************************************************)
Ran(name) == pc = "exit" /\ cmd.name = name

\* key verify got as far as the checks: every argument decoded.
VerifyChecked == Ran("key verify") /\ res.exit \in {0, 1}

\* The digest key verify checks first: as given, after the optional --reverse.
VerifyDigest == IF cmd.reverse THEN Reverse(cmd.message) ELSE cmd.message

\* The decoded signature is one the key of cmd.pubkey made for digest.
SignedOver(digest) ==
    \E len \in SigLens :
        decode_signature(cmd.signature).val = SignWith(cmd.pubkey, digest, len)

\* A signature that is valid for the reverse of the digest and not for the
\* digest, with --reverse absent.
ReverseOnlyCase ==
    /\ VerifyChecked
    /\ ~cmd.reverse
    /\ cmd.message # Reverse(cmd.message)
    /\ SignedOver(Reverse(cmd.message))

\* C1: a signature valid only for the reversed digest, verified without
\* --reverse, gives the report of the reversed case (the two hint lines, then
\* the verdict), which is neither the report of a valid signature nor that of
\* an invalid one; with no-try-reverse it gives the plain invalid report.
C1_ReverseOnlyReport ==
    ReverseOnlyCase =>
        /\ ~cmd.no_try_reverse =>
               /\ res.stderr = <<"Signature is valid for the reverse message.",
                                 "If the message is a Bitcoin SHA256 hash, try --reverse",
                                 "Signature is invalid!">>
               /\ res.stderr # <<"Signature is valid.">>
               /\ res.stderr # <<"Signature is invalid!">>
        /\ cmd.no_try_reverse =>
               /\ res.stderr = <<"Signature is invalid!">>
               /\ res.exit = 1

C1_Witness ==
    /\ ReverseOnlyCase
    /\ ~cmd.no_try_reverse
    /\ Len(res.stderr) = 3
    /\ Len(res.trace) = 2

\* C2: pubkey-tweak-add prints the point P + t*G.
C2_TweakAddPrintsSum ==
    (Ran("key pubkey-tweak-add") /\ res.exit = 0) =>
        res.stderr = <<(cmd.point + cmd.scalar) % GroupOrder>>

\* A decodable address with a version 0 witness program of a length other
\* than 20 and 32.
OddV0Case ==
    /\ Ran("address inspect")
    /\ cmd.address # NONE
    /\ cmd.address[1].payload.kind = "WitnessProgram"
    /\ cmd.address[1].payload.version = 0
    /\ Len(cmd.address[1].payload.program) \notin {20, 32}

\* C3: a version 0 witness program of a length other than 20 and 32 is
\* reported with type invalid-witness-program and no witness hash; the
\* command does not fail.
C3_InvalidWitnessProgram ==
    OddV0Case =>
        /\ res.exit = 0
        /\ Len(res.stdout) = 1
        /\ res.stdout[1].type_ = Some("invalid-witness-program")
        /\ res.stdout[1].witness_pubkey_hash = NONE
        /\ res.stdout[1].witness_script_hash = NONE

C3_Witness ==
    /\ OddV0Case
    /\ Len(cmd.address[1].payload.program) = 21
    /\ res.stdout[1].type_ = Some("invalid-witness-program")

\* address create took the --script branch.
FromScript == Ran("address create") /\ cmd.pubkey = NONE /\ cmd.script # NONE

\* How many of the three internal-key sources the command line names.
Sources ==
    Cardinality({i \in 1..3 :
        <<cmd.nums_h, cmd.nums_key # NONE, cmd.nums_entropy # NONE>>[i]})

RejectedAsAmbiguous ==
    /\ res.exit = 1
    /\ res.stdout =
           <<"Use only either nums-h, nums-internal-key or nums-internal-key-entropy.",
             "help">>

SourceKey ==
    IF cmd.nums_h THEN NUMS_H
    ELSE IF cmd.nums_key # NONE THEN cmd.nums_key[1]
    ELSE (NUMS_H + cmd.nums_entropy[1]) % GroupOrder

\* C5: an address set printed for a script has a p2tr entry exactly when one
\* internal-key source was named; it always has the p2sh and p2wsh entries of
\* the script, and the p2tr entry is the one of the key of the source named
\* (the explicit key, H, or H + e*G).
C5_TaprootIffOneSource ==
    (FromScript /\ res.exit = 0) =>
        LET ret == res.stdout[1]
            script == cmd.script[1]
        IN /\ Len(res.stdout) = 1
           /\ (ret.p2tr # NONE) <=> (Sources = 1)
           /\ ret.p2sh = Some(<<"p2sh", script, cmd.network>>)
           /\ ret.p2wsh = Some(<<"p2wsh", script, cmd.network>>)
           /\ Sources = 1 =>
                  ret.p2tr = Some(<<"p2tr", script, x_only(SourceKey), cmd.network>>)

C5_Witness ==
    /\ FromScript
    /\ res.exit = 0
    /\ Sources = 1
    /\ cmd.nums_entropy \notin {NONE, Some(0)}
    /\ res.stdout[1].p2tr # NONE

\* The all-zero entropy is the only internal-key source.
ZeroEntropyCase ==
    /\ FromScript
    /\ IsHex(cmd.script[1])
    /\ ~cmd.nums_h
    /\ cmd.nums_key = NONE
    /\ cmd.nums_entropy = Some(0)

\* C6: the all-zero entropy gives the point H: the command succeeds and prints
\* the address set that the fixed-constant source gives for the same script
\* and network.
C6_ZeroEntropyIsH ==
    ZeroEntropyCase =>
        /\ res.exit = 0
        /\ res.stdout[1].p2tr =
               Some(<<"p2tr", cmd.script[1], x_only(NUMS_H), cmd.network>>)
        /\ res.stdout =
               exec_create(NONE, cmd.script, TRUE, NONE, NONE, cmd.network).stdout

C6_Witness ==
    /\ ZeroEntropyCase
    /\ res.exit = 0
    /\ res.stdout[1].p2tr # NONE

\* C7: key verify gives the same outcome for the DER encoding of a signature
\* as for its compact encoding, whatever the length of the DER encoding.
C7_DerSameAsCompact ==
    Ran("key verify") =>
        \A sig \in Signatures :
            cmd.signature = serialize_der(sig) =>
                res = exec_verify(cmd.message, cmd.pubkey, serialize_compact(sig),
                                  cmd.reverse, cmd.no_try_reverse)

\* A decodable address with a witness program of a version other than 0.
LaterVersionCase ==
    /\ Ran("address inspect")
    /\ cmd.address # NONE
    /\ cmd.address[1].payload.kind = "WitnessProgram"
    /\ cmd.address[1].payload.version # 0

\* C8: a witness program of a version other than 0 is reported with type
\* unknown-witness-program-version and its version, and with none of the
\* four hashes, whatever its length.
C8_UnknownWitnessVersion ==
    LaterVersionCase =>
        /\ res.exit = 0
        /\ Len(res.stdout) = 1
        /\ res.stdout[1].type_ = Some("unknown-witness-program-version")
        /\ res.stdout[1].witness_program_version = Some(cmd.address[1].payload.version)
        /\ res.stdout[1].pubkey_hash = NONE
        /\ res.stdout[1].script_hash = NONE
        /\ res.stdout[1].witness_pubkey_hash = NONE
        /\ res.stdout[1].witness_script_hash = NONE

C8_Witness ==
    /\ LaterVersionCase
    /\ cmd.address[1].payload.version = 1
    /\ Len(cmd.address[1].payload.program) = 32
    /\ res.stdout[1].type_ = Some("unknown-witness-program-version")

\* The private key a command used: the one it reports (derive, inspect) or
\* signs with (sign).
UsedKey ==
    IF cmd.name = "key sign" THEN res.trace[Len(res.trace)][2] ELSE res.stdout[1].self

\* C9: in derive, inspect and sign a WIF key is tried first and is used with
\* its own network and compression flag, and the report of derive and inspect
\* is built for the network of the key, whatever the network of the command
\* line; a hex key gets the network of the command line and, in derive and
\* sign, compressed = true.
C9_WifCarriesNetwork ==
    (pc = "exit" /\ cmd.name \in {"key derive", "key inspect", "key sign"} /\ res.exit = 0) =>
        /\ res.trace[1] = <<"PrivateKey::from_str", cmd.privkey>>
        /\ cmd.privkey.form = "wif" =>
               /\ UsedKey.network = cmd.privkey.network
               /\ UsedKey.compressed = cmd.privkey.compressed
               /\ cmd.name # "key sign" => res.stdout[1].network = cmd.privkey.network
        /\ cmd.privkey.form = "hex" =>
               /\ cmd.name # "key sign" => res.stdout[1].network = cmd.network
               /\ cmd.name # "key inspect" =>
                      UsedKey.network = cmd.network /\ UsedKey.compressed

\* The signature verifies for the digest as given after the optional --reverse.
PrimaryValid == SignedOver(VerifyDigest)
\* The signature verifies for the reverse of that digest.
SecondValid == SignedOver(Reverse(VerifyDigest))

\* C10: key verify reports valid, and exits with 0, exactly when the signature
\* verifies for the digest as given after the optional --reverse; the check of
\* the reversed digest runs exactly when that failed and no-try-reverse is
\* absent, once; when it succeeds the verdict stays invalid and the hint is
\* added, saying to drop --reverse when it was given and to add it otherwise.
C10_VerdictIsPrimaryCheck ==
    VerifyChecked =>
        /\ (res.exit = 0) <=> PrimaryValid
        /\ res.stderr[Len(res.stderr)] =
               (IF PrimaryValid THEN "Signature is valid." ELSE "Signature is invalid!")
        /\ res.trace =
               <<<<"verify_ecdsa", VerifyDigest>>>>
                   \o (IF ~PrimaryValid /\ ~cmd.no_try_reverse
                       THEN <<<<"verify_ecdsa", Reverse(VerifyDigest)>>>>
                       ELSE <<>>)
        /\ res.stderr[1] = "Signature is valid for the reverse message."
               <=> (~PrimaryValid /\ ~cmd.no_try_reverse /\ SecondValid)
        /\ Len(res.stderr) \in {1, 3}
        /\ Len(res.stderr) = 3 =>
               /\ res.stderr[1] = "Signature is valid for the reverse message."
               /\ res.stderr[2] =
                      (IF cmd.reverse THEN "Try dropping the --reverse"
                       ELSE "If the message is a Bitcoin SHA256 hash, try --reverse")

C10_Witness ==
    /\ VerifyChecked
    /\ cmd.reverse
    /\ ~PrimaryValid
    /\ SecondValid
    /\ ~cmd.no_try_reverse
    /\ res.exit = 1
    /\ res.stderr[2] = "Try dropping the --reverse"

=============================================================================
